---- MODULE Spec2Model ----
(***************************************************************************)
(* LatestArtifactStrategy                                                  *)
(* (tfx/dsl/input_resolution/strategies/latest_artifact_strategy.py).      *)
(*                                                                         *)
(* A strategy object holds one field, _desired_num_of_artifact.  A call of *)
(* resolve_artifacts(store, input_dict) sorts every channel's artifact     *)
(* list by id, descending, keeps the first min(len, desired) artifacts and *)
(* returns the per-channel mapping when every channel kept at least        *)
(* `desired` artifacts, None otherwise.                                    *)
(***************************************************************************)
EXTENDS FiniteSets, Integers, Sequences, TLC

(* ------------------------------ bounds -------------------------------- *)

\* artifact ids range over 1..MaxId
MaxId == 2
\* a channel's artifact list has at most MaxLen artifacts
MaxLen == 2
\* the configured count ranges over None and -MaxDesired..MaxDesired
MaxDesired == 2

\* default value of the constructor's desired_num_of_artifacts parameter
DefaultDesired == 1

(* ------------------------------ values -------------------------------- *)

\* Optional[int]: None is the empty set, the integer n is {n}.
None == {}

Some(n) == {n}

Val(opt) == CHOOSE n \in opt : TRUE

\* Two artifacts with the same id are told apart by their uri.
Uris == {"a", "b"}

Artifacts == [id : 1..MaxId, uri : Uris]

\* Channel names (the keys of input_dict).
Channels == {"model", "data"}

\* The MLMD store handed to resolve_artifacts.
Stores == {"store1", "store2"}

ArtifactLists == UNION {[1..n -> Artifacts] : n \in 0..MaxLen}

\* Dict[str, List[Artifact]]: any subset of the channels, each with a list.
InputDicts == UNION {[ks -> ArtifactLists] : ks \in SUBSET Channels}

DesiredValues == {None} \cup {Some(n) : n \in (0 - MaxDesired)..MaxDesired}

EmptyDict == [k \in {} |-> <<>>]

\* Outcomes of a call.
NotCalled == [kind |-> "NotCalled", value |-> EmptyDict]

ReturnedNone == [kind |-> "None", value |-> EmptyDict]

RaisedTypeError == [kind |-> "TypeError", value |-> EmptyDict]

ReturnedDict(d) == [kind |-> "dict", value |-> d]

(* ------------------------- Python built-ins --------------------------- *)

\* min(a, b) on two ints
py_min(a, b) == IF b < a THEN b ELSE a

\* s[:n]; a negative n counts from the end and is clipped at 0
SliceTo(s, n) ==
  LET stop == IF n < 0 THEN (IF Len(s) + n < 0 THEN 0 ELSE Len(s) + n)
                       ELSE (IF n > Len(s) THEN Len(s) ELSE n)
  IN  SubSeq(s, 1, stop)

\* one insertion step of a stable descending sort: a goes after every
\* artifact whose id is greater than or equal to its own
InsertDesc(s, a) ==
  LET n == Cardinality({i \in 1..Len(s) : s[i].id >= a.id})
  IN  SubSeq(s, 1, n) \o <<a>> \o SubSeq(s, n + 1, Len(s))

\* one insertion step of a stable ascending sort
InsertAsc(s, a) ==
  LET n == Cardinality({i \in 1..Len(s) : s[i].id <= a.id})
  IN  SubSeq(s, 1, n) \o <<a>> \o SubSeq(s, n + 1, Len(s))

RECURSIVE sorted_ascending(_)
\* sorted(artifact_list, key=lambda a: a.id), reverse=True forgotten
sorted_ascending(artifact_list) ==
  IF artifact_list = <<>> THEN <<>>
  ELSE InsertAsc(sorted_ascending(SubSeq(artifact_list, 1, Len(artifact_list) - 1)),
                 artifact_list[Len(artifact_list)])

RECURSIVE sorted(_)
\* sorted(artifact_list, key=lambda a: a.id, reverse=True): a new list,
\* ids descending, equal ids in their input order (reverse keeps stability)
sorted(artifact_list) ==
  IF artifact_list = <<>> THEN <<>>
  ELSE InsertDesc(sorted(SubSeq(artifact_list, 1, Len(artifact_list) - 1)),
                  artifact_list[Len(artifact_list)])

(* ------------------------------ _resolve ------------------------------ *)

RECURSIVE resolve_loop(_, _, _, _)
\* the for loop of _resolve over the items not yet visited (keys);
\* min(len, None) raises TypeError on the first item when desired is None
resolve_loop(desired, input_dict, keys, result) ==
  IF keys = {} THEN ReturnedDict(result)
  ELSE IF desired = None THEN RaisedTypeError
  ELSE LET k == CHOOSE x \in keys : TRUE
           sorted_artifact_list == sorted(input_dict[k])
           kept == SliceTo(sorted_artifact_list,
                           py_min(Len(sorted_artifact_list), Val(desired)))
       IN  resolve_loop(desired, input_dict, keys \ {k}, result @@ (k :> kept))

RECURSIVE resolve_loop_accumulating(_, _, _, _, _)
\* the loop with the sorted list kept across iterations instead of rebuilt
resolve_loop_accumulating(desired, input_dict, keys, result, seen) ==
  IF keys = {} THEN ReturnedDict(result)
  ELSE IF desired = None THEN RaisedTypeError
  ELSE LET k == CHOOSE x \in keys : TRUE
           sorted_artifact_list == sorted(seen \o input_dict[k])
           kept == SliceTo(sorted_artifact_list,
                           py_min(Len(sorted_artifact_list), Val(desired)))
       IN  resolve_loop_accumulating(desired, input_dict, keys \ {k},
                                     result @@ (k :> kept), sorted_artifact_list)

\* _resolve with one list accumulated over all channels
resolve_accumulating(desired, input_dict) ==
  resolve_loop_accumulating(desired, input_dict, DOMAIN input_dict, EmptyDict, <<>>)

\* _resolve that skips the channels whose list is empty
resolve_skip_empty(desired, input_dict) ==
  LET keys == {k \in DOMAIN input_dict : input_dict[k] # <<>>}
  IN  resolve_loop(desired, input_dict, keys, EmptyDict)

\* LatestArtifactStrategy._resolve
_resolve(desired, input_dict) ==
  resolve_loop(desired, input_dict, DOMAIN input_dict, EmptyDict)

(* -------------------------- resolve_artifacts ------------------------- *)

\* any(...) in place of all(...)
any_min_count_met(desired, resolved_dict) ==
  \E k \in DOMAIN resolved_dict : Len(resolved_dict[k]) >= Val(desired)

\* > in place of >=
all_min_count_exceeded(desired, resolved_dict) ==
  \A k \in DOMAIN resolved_dict : Len(resolved_dict[k]) > Val(desired)

\* all(len(l) >= desired for l in resolved_dict.values()); the comparison
\* is evaluated only when there is a value, so None never reaches it
all_min_count_met(desired, resolved_dict) ==
  \A k \in DOMAIN resolved_dict : Len(resolved_dict[k]) >= Val(desired)

\* resolve_artifacts that also requires a non-empty resolved_dict
resolve_artifacts_nonempty(desired, store, input_dict) ==
  LET resolved == _resolve(desired, input_dict)
  IN  IF resolved.kind = "TypeError" THEN resolved
      ELSE IF all_min_count_met(desired, resolved.value) /\ DOMAIN resolved.value # {}
           THEN resolved ELSE ReturnedNone

\* LatestArtifactStrategy.resolve_artifacts; store is never read
resolve_artifacts(desired, store, input_dict) ==
  LET resolved == _resolve(desired, input_dict)
  IN  IF resolved.kind = "TypeError" THEN resolved
      ELSE IF all_min_count_met(desired, resolved.value)
           THEN resolved ELSE ReturnedNone

(* ------------------------------- state -------------------------------- *)

VARIABLES
  desired,     \* self._desired_num_of_artifact
  input_dict,  \* the caller's input_dict, handed to every call
  result,      \* outcome of the latest call of resolve_artifacts
  previous     \* outcome of the call before it

vars == <<desired, input_dict, result, previous>>

\* LatestArtifactStrategy.__init__
__init__(desired_num_of_artifacts) == desired_num_of_artifacts

Init ==
  /\ desired \in {__init__(d) : d \in DesiredValues \cup {Some(DefaultDesired)}}
  /\ input_dict \in InputDicts
  /\ result = NotCalled
  /\ previous = NotCalled

\* a call that sorts the caller's lists in place (list.sort)
ResolveArtifactsInPlace ==
  \E store \in Stores :
    /\ result' = resolve_artifacts(desired, store, input_dict)
    /\ previous' = result
    /\ input_dict' = [k \in DOMAIN input_dict |-> sorted(input_dict[k])]
    /\ UNCHANGED desired

\* a call that stores the slice bound back into the strategy
ResolveArtifactsStoringBound ==
  \E store \in Stores :
    /\ result' = resolve_artifacts(desired, store, input_dict)
    /\ previous' = result
    /\ desired' = IF desired = None \/ DOMAIN input_dict = {} THEN desired
                  ELSE LET k == CHOOSE x \in DOMAIN input_dict : TRUE
                       IN  Some(py_min(Len(input_dict[k]), Val(desired)))
    /\ UNCHANGED input_dict

\* one call strategy.resolve_artifacts(store, input_dict)
ResolveArtifacts ==
  \E store \in Stores :
    /\ result' = resolve_artifacts(desired, store, input_dict)
    /\ previous' = result
    /\ UNCHANGED <<desired, input_dict>>

Next == ResolveArtifacts

Spec == Init /\ [][Next]_vars

(* ----------------------------- properties ----------------------------- *)

Called == result.kind # "NotCalled"

\* desired is a positive integer
Positive(d) == d # None /\ Val(d) >= 1

\* number of occurrences of artifact a in list s
Count(a, s) == Cardinality({i \in 1..Len(s) : s[i] = a})

\* the artifacts of s whose id is v, in the order of s
WithId(s, v) == SelectSeq(s, LAMBDA a : a.id = v)

IsPrefix(p, s) == Len(p) <= Len(s) /\ SubSeq(s, 1, Len(p)) = p

Descending(s) == \A i \in 1..(Len(s) - 1) : s[i].id >= s[i + 1].id

\* C1: with desired >= 1, as soon as one channel's input list is shorter
\* than desired the call returns None and nothing else, whatever the other
\* channels hold.
C1_AllOrNothing ==
  (Called /\ Positive(desired)
     /\ \E k \in DOMAIN input_dict : Len(input_dict[k]) < Val(desired))
  => result = ReturnedNone

C1_Witness ==
  /\ Positive(desired)
  /\ \E k \in DOMAIN input_dict : Len(input_dict[k]) < Val(desired)
  /\ \E k \in DOMAIN input_dict : Len(input_dict[k]) >= Val(desired)
  /\ result = ReturnedNone

\* C2: with desired >= 1, when every channel's input list has at least
\* desired artifacts the call returns a mapping and every channel's output
\* list has exactly desired artifacts.
C2_AllSufficientResolves ==
  (Called /\ Positive(desired)
     /\ \A k \in DOMAIN input_dict : Len(input_dict[k]) >= Val(desired))
  => /\ result.kind = "dict"
     /\ \A k \in DOMAIN input_dict :
          k \in DOMAIN result.value /\ Len(result.value[k]) = Val(desired)

C2_Witness ==
  /\ desired = Some(1)
  /\ DOMAIN input_dict = Channels
  /\ Len(input_dict["model"]) = 2
  /\ Len(input_dict["data"]) = 1
  /\ result.kind = "dict"
  /\ Len(result.value["model"]) = 1

\* C3: when desired is None, zero or negative, every call fails with an
\* error: it returns neither a mapping nor None.
C3_FailFast ==
  (Called /\ ~Positive(desired)) => result.kind \notin {"dict", "None"}

\* C4: whenever a mapping is returned, every channel's output list has its
\* ids in descending order, keeps artifacts of equal id in their input
\* order, and has at most desired artifacts.
C4_SortedStableTruncated ==
  result.kind = "dict" =>
    \A k \in DOMAIN result.value :
      /\ Descending(result.value[k])
      /\ \A v \in 1..MaxId :
           IsPrefix(WithId(result.value[k], v), WithId(input_dict[k], v))
      /\ Len(result.value[k]) <= Val(desired)

\* The statement of C4 restricted to the configurations the constructor is
\* meant to receive (desired >= 1).
SortedStableTruncatedWhenPositive ==
  (result.kind = "dict" /\ Positive(desired)) =>
    \A k \in DOMAIN result.value :
      /\ Descending(result.value[k])
      /\ \A v \in 1..MaxId :
           IsPrefix(WithId(result.value[k], v), WithId(input_dict[k], v))
      /\ Len(result.value[k]) <= Val(desired)

\* C5: whenever a mapping is returned, every channel's output list is a
\* sub-multiset of the input list of that same channel.
C5_NoFabrication ==
  result.kind = "dict" =>
    \A k \in DOMAIN result.value :
      /\ k \in DOMAIN input_dict
      /\ \A a \in Artifacts :
           Count(a, result.value[k]) <= Count(a, input_dict[k])

C5_Witness ==
  /\ result.kind = "dict"
  /\ DOMAIN input_dict = Channels
  /\ \E a \in Artifacts :
       /\ Count(a, input_dict["model"]) = 2
       /\ Count(a, input_dict["data"]) = 0
       /\ Count(a, result.value["model"]) = 1
  /\ \E b \in Artifacts :
       /\ Count(b, input_dict["model"]) = 0
       /\ Count(b, result.value["data"]) = 1

\* C6: with desired >= 1, whenever a mapping is returned every channel's
\* output holds desired artifacts of its input and every artifact left out
\* has an id no greater than the id of every artifact kept; with desired = 1
\* the output is one artifact of maximum id.
C6_TopN ==
  (result.kind = "dict" /\ Positive(desired)) =>
    \A k \in DOMAIN input_dict :
      /\ Len(result.value[k]) = Val(desired)
      /\ \A a \in Artifacts :
           Count(a, result.value[k]) < Count(a, input_dict[k]) =>
             \A i \in 1..Len(result.value[k]) : a.id <= result.value[k][i].id
      /\ Val(desired) = 1 =>
           \A i \in 1..Len(input_dict[k]) :
             input_dict[k][i].id <= result.value[k][1].id

C6_Witness ==
  /\ desired = Some(1)
  /\ "model" \in DOMAIN input_dict
  /\ Len(input_dict["model"]) = 2
  /\ input_dict["model"][1].id < input_dict["model"][2].id
  /\ result.kind = "dict"
  /\ result.value["model"] = <<input_dict["model"][2]>>

\* C7: no call changes the caller's input_dict (channels, lists, order) or
\* the strategy's desired count, whether it returns a mapping, returns None
\* or raises.
C7_NoMutation == [][input_dict' = input_dict /\ desired' = desired]_vars

C7_Witness ==
  /\ Called
  /\ \E k \in DOMAIN input_dict : sorted(input_dict[k]) # input_dict[k]

C9_ZeroChannelsResolved ==
  (Called /\ Positive(desired)) =>
    /\ DOMAIN input_dict = {} => result = ReturnedDict(EmptyDict)
    /\ \A k \in Channels :
         (DOMAIN input_dict = {k} /\ input_dict[k] = <<>>) => result = ReturnedNone

C9_Witness ==
  /\ Positive(desired)
  /\ DOMAIN input_dict = {}
  /\ result = ReturnedDict(EmptyDict)

\* the lists obtained from l by removing or adding one artifact at either end
OneStepChanges(l) ==
  {SubSeq(l, 2, Len(l)), SubSeq(l, 1, Len(l) - 1)}
    \cup {<<a>> \o l : a \in Artifacts} \cup {l \o <<a>> : a \in Artifacts}

\* C10: whenever a mapping is returned its channel names are exactly those
\* of input_dict, and a channel's output list is a function of that
\* channel's own input list: it is the output the channel gets when it is
\* the only channel, and it stays the same when another channel's list is
\* changed by one artifact and the call still resolves.
C10_SameChannelsIndependent ==
  result.kind = "dict" =>
    /\ DOMAIN result.value = DOMAIN input_dict
    /\ \A k \in DOMAIN input_dict : \A store \in Stores :
         LET alone == resolve_artifacts(desired, store, [x \in {k} |-> input_dict[k]])
         IN  alone.kind = "dict" /\ alone.value[k] = result.value[k]
    /\ \A k \in DOMAIN input_dict : \A j \in DOMAIN input_dict \ {k} :
         \A l \in OneStepChanges(input_dict[j]) :
           LET store == CHOOSE s \in Stores : TRUE
               other == resolve_artifacts(desired, store, [input_dict EXCEPT ![j] = l])
           IN  other.kind = "dict" => other.value[k] = result.value[k]

C10_Witness ==
  /\ result.kind = "dict"
  /\ Positive(desired)
  /\ DOMAIN result.value = Channels
  /\ input_dict["model"] # input_dict["data"]
  /\ Len(input_dict["model"]) > Val(desired)

====
